---------------------------- MODULE Spec2Model ----------------------------
(***************************************************************************)
(* CytoPipe / CytoSnake.                                                   *)
(*                                                                         *)
(*   Spec       one run of aggregate() in scripts/aggregate_cells.py       *)
(*   SpecPool   the __main__ dispatcher of scripts/aggregate_cells.py      *)
(*   SpecPaths  is_cytosnake_dir / get_cytosnake_package_path of           *)
(*              cytosnake/utils/cyto_paths.py                              *)
(*                                                                         *)
(* Strings that the code takes apart (file paths, barcodes) are sequences  *)
(* of one-character strings; every other string is a TLA+ string.          *)
(***************************************************************************)
EXTENDS Integers, Sequences, FiniteSets, TLC

VARIABLES
    \* ---- aggregate(): arguments, locals, position, files it writes
    sql_file,             \* argument sql_file, a path
    pc,                   \* the statement aggregate() is about to run
    error,                \* the exception that left aggregate(): its class and the
                          \* statement that raised it; NoError if none
    plate,                \* local plate: the list rsplit returned
    barcode_platemap_df,  \* local: rows of the barcode table
    platemap,             \* local: the Plate_Map_Name picked
    platemap_df,          \* local: the platemap table
    cell_count_df,        \* local: what count_cells() returned
    merged_df,            \* local cell_count_df after merge(...).drop(...)
    cell_count_file,      \* the file at cell_count_out
    aggregate_file,       \* the file at aggregate_file_out
    \* ---- __main__: the dispatcher and its pool
    dpc,                  \* the statement __main__ is about to run
    sqlfiles,             \* snakemake.input["sql_files"]
    threads,              \* snakemake.threads
    inputs,               \* the zipped list of argument tuples
    n_cores,              \* local n_cores
    pool,                 \* number of worker processes of the pool, 0 before it exists
    chunk_state,          \* per task chunk: "queued", "running", "finished"
    job_state,            \* per job: "pending", "done", "failed"
    invoked,              \* per job: the bound parameters of each aggregate() call made
    raised,               \* exception class that left __main__, "" if none
    \* ---- cyto_paths: the file system it looks at, the call made, its outcome
    fs_cytosnake,         \* directories that hold a `.cytosnake` entry
    fs_git,               \* whether <package parent>/.git exists
    call,                 \* the call made, [fn |-> "" ] before any
    outcome               \* [kind |-> "return" | "raise" | "", value |-> ...]

jobVars   == <<sql_file, pc, error, plate, barcode_platemap_df, platemap,
               platemap_df, cell_count_df, merged_df, cell_count_file,
               aggregate_file>>
poolVars  == <<dpc, sqlfiles, threads, inputs, n_cores, pool, chunk_state,
               job_state, invoked, raised>>
pathVars  == <<fs_cytosnake, fs_git, call, outcome>>
vars      == <<jobVars, poolVars, pathVars>>

---------------------------------------------------------------------------
(* Bounds of the model. *)
MaxBarcodeRows  == 2
MaxPlatemapRows == 2
MaxCountRows    == 2
MaxJobs         == 5
MaxThreads      == 2

SeqsUpTo(S, n) == UNION { [1..k -> S] : k \in 0..n }

Min(a, b) == IF a < b THEN a ELSE b

---------------------------------------------------------------------------
(* String helpers: os.path.basename and str.rsplit(".", 1) *)

LastIndexOf(s, c) ==
    LET hits == { i \in 1..Len(s) : s[i] = c }
    IN  IF hits = {} THEN 0 ELSE CHOOSE i \in hits : \A j \in hits : j <= i

\* os.path.basename: what follows the last "/"
Basename(path) == SubSeq(path, LastIndexOf(path, "/") + 1, Len(path))

\* str.rsplit(".", 1): at most one split, at the last "."; a list of 1 or 2 strings
RSplitDot1(s) ==
    LET k == LastIndexOf(s, ".")
    IN  IF k = 0 THEN <<s>>
        ELSE <<SubSeq(s, 1, k - 1), SubSeq(s, k + 1, Len(s))>>

\* line 50: plate = os.path.basename(sql_file).rsplit(".", 1)
PlateOf(path) == RSplitDot1(Basename(path))

ListElems(l) == { l[i] : i \in 1..Len(l) }

\* lines 52-53: DataFrame.query("Assay_Plate_Barcode == @plate"). plate is a
\* list, and query() rewrites `column == list` into `column in list`.
QueryBarcode(df, plt) ==
    SelectSeq(df, LAMBDA row : row.Assay_Plate_Barcode \in ListElems(plt))

---------------------------------------------------------------------------
(* Inputs of one job *)

SqlFiles ==
    { <<"/", "d", "/", "P", ".", "s">>,      \* /d/P.s
      <<"P", ".", "s">>,                     \* P.s
      <<"P">>,                               \* P       (no extension)
      <<"/", "d", ".", "s", "/", "P">>,      \* /d.s/P  (dot in the directory only)
      <<"P", ".", "b", ".", "s">> }          \* P.b.s   (two dots)

Barcodes     == { <<"P">>, <<"s">>, <<"P", ".", "b">> }
PlatemapNames == { "MapX", "MapY" }
Wells        == { "A01", "A02" }

BarcodeRows  == [Assay_Plate_Barcode : Barcodes, Plate_Map_Name : PlatemapNames]
BarcodeTables == SeqsUpTo(BarcodeRows, MaxBarcodeRows)

PlatemapRows == [well_position : Wells, treatment : {"drug"}]
FullColumns  == {"well_position", "WellRow", "WellCol", "treatment"}
PlatemapTables ==
    [columns : {FullColumns, {"well_position", "treatment"}},
     rows    : SeqsUpTo(PlatemapRows, MaxPlatemapRows)]

CountRows    == [Image_Metadata_Well : Wells, cell_count : {1}]
CountTables  == SeqsUpTo(CountRows, MaxCountRows)

NoTable      == [columns |-> {}, rows |-> <<>>]
NoFile       == [state |-> "absent", rows |-> <<>>]

---------------------------------------------------------------------------
(* lines 84-86: DataFrame.merge (how defaults to "inner") and drop *)

JoinRow(l, r) ==
    [Image_Metadata_Well |-> l.Image_Metadata_Well, cell_count |-> l.cell_count,
     well_position |-> r.well_position, treatment |-> r.treatment]

RECURSIVE JoinAll(_, _)
JoinAll(l, rs) ==
    IF rs = <<>> THEN <<>> ELSE <<JoinRow(l, Head(rs))>> \o JoinAll(l, Tail(rs))

MatchesOf(l, right) ==
    SelectSeq(right, LAMBDA r : r.well_position = l.Image_Metadata_Well)

\* Variant: merge(..., how="left"), a left row without a match is kept, its
\* platemap columns empty
RECURSIVE MergeLeft(_, _)
MergeLeft(left, right) ==
    IF left = <<>> THEN <<>>
    ELSE LET l == Head(left)
             m == MatchesOf(l, right)
         IN  (IF m = <<>>
              THEN <<[Image_Metadata_Well |-> l.Image_Metadata_Well,
                      cell_count |-> l.cell_count,
                      well_position |-> "NaN", treatment |-> "NaN"]>>
              ELSE JoinAll(l, m)) \o MergeLeft(Tail(left), right)

\* Variant: merge(..., how="cross"), the keys are not compared
RECURSIVE MergeCross(_, _)
MergeCross(left, right) ==
    IF left = <<>> THEN <<>>
    ELSE JoinAll(Head(left), right) \o MergeCross(Tail(left), right)

\* merge(platemap_df, left_on="Image_Metadata_Well", right_on="well_position"):
\* no `how`, so an inner join: one row per (left row, matching right row)
RECURSIVE Merge(_, _)
Merge(left, right) ==
    IF left = <<>> THEN <<>>
    ELSE JoinAll(Head(left), MatchesOf(Head(left), right)) \o Merge(Tail(left), right)

DropRow(row) ==
    [Image_Metadata_Well |-> row.Image_Metadata_Well,
     cell_count |-> row.cell_count, treatment |-> row.treatment]

RECURSIVE DropCols(_)
DropCols(rows) ==
    IF rows = <<>> THEN <<>> ELSE <<DropRow(Head(rows))>> \o DropCols(Tail(rows))

Dropped == {"WellRow", "WellCol", "well_position"}

---------------------------------------------------------------------------
(* aggregate(): the order of its statements, lines 42-92 *)

\* Variant: aggregate_profiles() called before the cell counts are saved
NextStmtProfilesFirst(stmt) ==
    CASE stmt = "load_config"        -> "lookup_platemap"
      [] stmt = "lookup_platemap"    -> "load_platemap"
      [] stmt = "load_platemap"      -> "single_cells"
      [] stmt = "single_cells"       -> "count_cells"
      [] stmt = "count_cells"        -> "aggregate_profiles"
      [] stmt = "aggregate_profiles" -> "save_counts"
      [] stmt = "save_counts"        -> "done"

NextStmt(stmt) ==
    CASE stmt = "load_config"        -> "lookup_platemap"
      [] stmt = "lookup_platemap"    -> "load_platemap"
      [] stmt = "load_platemap"      -> "single_cells"
      [] stmt = "single_cells"       -> "count_cells"
      [] stmt = "count_cells"        -> "save_counts"
      [] stmt = "save_counts"        -> "aggregate_profiles"
      [] stmt = "aggregate_profiles" -> "done"

NoError == [cls |-> "", at |-> ""]

\* nothing in aggregate() catches: the exception leaves the function
Fail(cls) == /\ pc' = "failed"
             /\ error' = [cls |-> cls, at |-> pc]

JobInit ==
    /\ sql_file \in SqlFiles
    /\ pc = "load_config"
    /\ error = NoError
    /\ plate = <<>>
    /\ barcode_platemap_df = <<>>
    /\ platemap = ""
    /\ platemap_df = NoTable
    /\ cell_count_df = <<>>
    /\ merged_df = <<>>
    /\ cell_count_file = NoFile
    /\ aggregate_file = NoFile

\* lines 42-47: open the config and take ["single_cell_config"]["params"]
LoadConfig ==
    /\ pc = "load_config"
    /\ \/ /\ pc' = NextStmt(pc)
          /\ UNCHANGED error
       \/ \E cls \in {"FileNotFoundError", "YAMLError", "KeyError"} : Fail(cls)
    /\ UNCHANGED <<sql_file, plate, barcode_platemap_df, platemap, platemap_df,
                   cell_count_df, merged_df, cell_count_file, aggregate_file>>

\* lines 50-54: derive plate, read the barcode table, query it, take values[0]
LookupPlatemap ==
    /\ pc = "lookup_platemap"
    /\ plate' = PlateOf(sql_file)
    /\ \/ /\ Fail("FileNotFoundError")          \* read_csv(barcode_path)
          /\ UNCHANGED <<barcode_platemap_df, platemap>>
       \/ \E df \in BarcodeTables :
            LET hits == QueryBarcode(df, plate')
            IN  /\ barcode_platemap_df' = df
                /\ IF hits = <<>>
                   THEN /\ Fail("IndexError")   \* .values[0] of an empty array
                        /\ UNCHANGED platemap
                   ELSE /\ platemap' = hits[1].Plate_Map_Name
                        /\ pc' = NextStmt(pc)
                        /\ UNCHANGED error
    /\ UNCHANGED <<sql_file, platemap_df, cell_count_df, merged_df,
                   cell_count_file, aggregate_file>>

\* lines 55-56: read <metadata_dir>/platemap/<platemap>.csv
LoadPlatemap ==
    /\ pc = "load_platemap"
    /\ \/ /\ Fail("FileNotFoundError")
          /\ UNCHANGED platemap_df
       \/ \E t \in PlatemapTables :
            /\ platemap_df' = t
            /\ pc' = NextStmt(pc)
            /\ UNCHANGED error
    /\ UNCHANGED <<sql_file, plate, barcode_platemap_df, platemap,
                   cell_count_df, merged_df, cell_count_file, aggregate_file>>

\* lines 58-77: SingleCells(...), the external capability
NewSingleCells ==
    /\ pc = "single_cells"
    /\ \/ /\ pc' = NextStmt(pc)
          /\ UNCHANGED error
       \/ \E cls \in {"KeyError", "CapabilityError"} : Fail(cls)
    /\ UNCHANGED <<sql_file, plate, barcode_platemap_df, platemap, platemap_df,
                   cell_count_df, merged_df, cell_count_file, aggregate_file>>

\* line 81: cell_count_df = single_cell_profile.count_cells()
CountCells ==
    /\ pc = "count_cells"
    /\ \/ /\ Fail("CapabilityError")
          /\ UNCHANGED cell_count_df
       \/ \E t \in CountTables :
            /\ cell_count_df' = t
            /\ pc' = NextStmt(pc)
            /\ UNCHANGED error
    /\ UNCHANGED <<sql_file, plate, barcode_platemap_df, platemap, platemap_df,
                   merged_df, cell_count_file, aggregate_file>>

\* lines 84-87: merge, drop, to_csv. to_csv either writes every row or fails
\* part way (no transactional write): a strict prefix of the rows is on disk.
SaveCounts ==
    /\ pc = "save_counts"
    /\ IF ~ (Dropped \subseteq platemap_df.columns)
       THEN /\ Fail("KeyError")                 \* merge key or drop label missing
            /\ UNCHANGED <<merged_df, cell_count_file>>
       ELSE /\ merged_df' = DropCols(Merge(cell_count_df, platemap_df.rows))
            /\ \/ /\ cell_count_file' = [state |-> "complete", rows |-> merged_df']
                  /\ pc' = NextStmt(pc)
                  /\ UNCHANGED error
               \/ /\ \E k \in 0..(Len(merged_df') - 1) :
                        cell_count_file' =
                            [state |-> "partial", rows |-> SubSeq(merged_df', 1, k)]
                  /\ Fail("OSError")
               \/ /\ UNCHANGED cell_count_file    \* the file could not be opened
                  /\ Fail("OSError")
    /\ UNCHANGED <<sql_file, plate, barcode_platemap_df, platemap, platemap_df,
                   cell_count_df, aggregate_file>>

\* lines 90-92: aggregate_profiles(output_file=aggregate_file_out, ...)
AggregateProfiles ==
    /\ pc = "aggregate_profiles"
    /\ \/ /\ aggregate_file' = [state |-> "complete", rows |-> <<>>]
          /\ pc' = NextStmt(pc)
          /\ UNCHANGED error
       \/ /\ \E st \in {"absent", "partial"} :
                aggregate_file' = [state |-> st, rows |-> <<>>]
          /\ Fail("CapabilityError")
    /\ UNCHANGED <<sql_file, plate, barcode_platemap_df, platemap, platemap_df,
                   cell_count_df, merged_df, cell_count_file>>

---------------------------------------------------------------------------
(* __main__ of aggregate_cells.py: the dispatcher, lines 97-122 *)

SqlPath(i)        == [kind |-> "sql_file", plate |-> i]
CellCountPath(i)  == [kind |-> "cell_counts", plate |-> i]
AggregatePath(i)  == [kind |-> "aggregate_profile", plate |-> i]
MetadataDir       == [kind |-> "metadata", plate |-> 0]
BarcodePath       == [kind |-> "barcodes", plate |-> 0]
ConfigPath        == [kind |-> "aggregate_config", plate |-> 0]

\* lines 98-102: the three per-plate lists snakemake hands over, one entry per plate
SqlFileList(n)          == [i \in 1..n |-> SqlPath(i)]
CellCountOutList(n)     == [i \in 1..n |-> CellCountPath(i)]
AggregateProfileList(n) == [i \in 1..n |-> AggregatePath(i)]

\* Variant: the two output lists zipped in each other's place
ZipInputsSwapped(sqls, ccs, aggs) ==
    [i \in 1..Min(Len(sqls), Min(Len(ccs), Len(aggs))) |->
        <<sqls[i], MetadataDir, BarcodePath, aggs[i], ccs[i], ConfigPath>>]

\* lines 103-108: zip(sqlfiles, repeat(meta), repeat(barcode), cell_count_out,
\* aggregate_profile_out, repeat(config)); zip stops at the shortest list
ZipInputs(sqls, ccs, aggs) ==
    [i \in 1..Min(Len(sqls), Min(Len(ccs), Len(aggs))) |->
        <<sqls[i], MetadataDir, BarcodePath, ccs[i], aggs[i], ConfigPath>>]

\* lines 10-17: aggregate's parameters, bound positionally by starmap
BindArgs(t) ==
    [sql_file |-> t[1], metadata_dir |-> t[2], barcode_path |-> t[3],
     cell_count_out |-> t[4], aggregate_file_out |-> t[5], config |-> t[6]]

\* Variant: the requested count used as it is
ClampCoresNone(requested, njobs) == requested

\* lines 112-116: if n_cores > len(inputs): n_cores = len(inputs)
ClampCores(requested, njobs) == IF requested > njobs THEN njobs ELSE requested

\* line 120, Pool.starmap with no chunksize: divmod(len(iterable), len(pool) * 4),
\* one more when there is a remainder
ChunkSizeOf(njobs, nprocs) ==
    (njobs \div (nprocs * 4)) + (IF njobs % (nprocs * 4) > 0 THEN 1 ELSE 0)

NumChunksOf(njobs, csize) ==
    (njobs \div csize) + (IF njobs % csize > 0 THEN 1 ELSE 0)

ChunkSize == ChunkSizeOf(Len(inputs), pool)
ChunkOf(i) == ((i - 1) \div ChunkSize) + 1
JobsOf(c) == { i \in 1..Len(inputs) : ChunkOf(i) = c }

Running == { c \in 1..Len(chunk_state) : chunk_state[c] = "running" }
Queued  == { c \in 1..Len(chunk_state) : chunk_state[c] = "queued" }

\* Variant: the result is ready as soon as one job has failed
ResultReadyOnFirstFailure ==
    \/ \A c \in 1..Len(chunk_state) : chunk_state[c] = "finished"
    \/ \E i \in 1..Len(job_state) : job_state[i] = "failed"

\* line 120: starmap blocks on its MapResult, which is ready only once every
\* chunk has reported back, whether it succeeded or failed
ResultReady == \A c \in 1..Len(chunk_state) : chunk_state[c] = "finished"

AnyFailed == \E i \in 1..Len(job_state) : job_state[i] = "failed"

PoolInit ==
    /\ dpc = "build"
    /\ \E n \in 0..MaxJobs : sqlfiles = SqlFileList(n)
    /\ threads \in 1..MaxThreads
    /\ inputs = <<>>
    /\ n_cores = 0
    /\ pool = 0
    /\ chunk_state = <<>>
    /\ job_state = <<>>
    /\ invoked = <<>>
    /\ raised = ""

\* lines 98-108
BuildInputs ==
    /\ dpc = "build"
    /\ inputs' = ZipInputs(sqlfiles, CellCountOutList(Len(sqlfiles)),
                           AggregateProfileList(Len(sqlfiles)))
    /\ dpc' = "clamp"
    /\ UNCHANGED <<sqlfiles, threads, n_cores, pool, chunk_state, job_state,
                   invoked, raised>>

\* lines 111-116
SetCores ==
    /\ dpc = "clamp"
    /\ n_cores' = ClampCores(threads, Len(inputs))
    /\ dpc' = "open_pool"
    /\ UNCHANGED <<sqlfiles, threads, inputs, pool, chunk_state, job_state,
                   invoked, raised>>

\* line 119: mp.Pool(processes=n_cores); Pool refuses processes < 1
OpenPool ==
    /\ dpc = "open_pool"
    /\ IF n_cores < 1
       THEN /\ raised' = "ValueError"
            /\ dpc' = "exited"
            /\ UNCHANGED pool
       ELSE /\ pool' = n_cores
            /\ dpc' = "starmap"
            /\ UNCHANGED raised
    /\ UNCHANGED <<sqlfiles, threads, inputs, n_cores, chunk_state, job_state,
                   invoked>>

\* line 120: starmap cuts the inputs into chunks and queues them
SubmitStarmap ==
    /\ dpc = "starmap"
    /\ chunk_state' = [c \in 1..NumChunksOf(Len(inputs), ChunkSize) |-> "queued"]
    /\ job_state' = [i \in 1..Len(inputs) |-> "pending"]
    /\ invoked' = [i \in 1..Len(inputs) |-> <<>>]
    /\ dpc' = "starmap_wait"
    /\ UNCHANGED <<sqlfiles, threads, inputs, n_cores, pool, raised>>

PoolAlive == dpc \in {"starmap_wait", "close", "join", "exit"}

\* an idle worker process takes the next chunk off the task queue
WorkerTakeChunk ==
    /\ PoolAlive
    /\ Cardinality(Running) < pool
    /\ Queued # {}
    /\ LET c == CHOOSE c \in Queued : \A d \in Queued : c <= d
       IN  chunk_state' = [chunk_state EXCEPT ![c] = "running"]
    /\ UNCHANGED <<dpc, sqlfiles, threads, inputs, n_cores, pool, job_state,
                   invoked, raised>>

\* a worker runs the next job of its chunk: aggregate(*inputs[i]). The chunk is
\* list(itertools.starmap(aggregate, chunk)): an exception ends the chunk, and
\* the jobs after it in the chunk are never called.
WorkerRunJob(c) ==
    /\ PoolAlive
    /\ c \in Running
    /\ LET todo == { i \in JobsOf(c) : job_state[i] = "pending" }
           i    == CHOOSE i \in todo : \A j \in todo : i <= j
       IN  /\ todo # {}
           /\ invoked' = [invoked EXCEPT ![i] = Append(@, BindArgs(inputs[i]))]
           /\ \/ /\ job_state' = [job_state EXCEPT ![i] = "done"]
                 /\ chunk_state' = IF todo = {i}
                                   THEN [chunk_state EXCEPT ![c] = "finished"]
                                   ELSE chunk_state
              \/ /\ job_state' = [job_state EXCEPT ![i] = "failed"]
                 /\ chunk_state' = [chunk_state EXCEPT ![c] = "finished"]
    /\ UNCHANGED <<dpc, sqlfiles, threads, inputs, n_cores, pool, raised>>

\* line 120: starmap returns, or re-raises the exception of a failed job
StarmapReturn ==
    /\ dpc = "starmap_wait"
    /\ ResultReady
    /\ IF AnyFailed
       THEN /\ raised' = "JobError"
            /\ dpc' = "exit"
       ELSE /\ dpc' = "close"
            /\ UNCHANGED raised
    /\ UNCHANGED <<sqlfiles, threads, inputs, n_cores, pool, chunk_state,
                   job_state, invoked>>

\* line 121: pool.close()
ClosePool ==
    /\ dpc = "close"
    /\ dpc' = "join"
    /\ UNCHANGED <<sqlfiles, threads, inputs, n_cores, pool, chunk_state,
                   job_state, invoked, raised>>

\* line 122: pool.join()
JoinPool ==
    /\ dpc = "join"
    /\ Running = {} /\ Queued = {}
    /\ dpc' = "exit"
    /\ UNCHANGED <<sqlfiles, threads, inputs, n_cores, pool, chunk_state,
                   job_state, invoked, raised>>

\* line 119, leaving the with block: Pool.__exit__ terminates the workers
ExitPool ==
    /\ dpc = "exit"
    /\ dpc' = "exited"
    /\ UNCHANGED <<sqlfiles, threads, inputs, n_cores, pool, chunk_state,
                   job_state, invoked, raised>>

---------------------------------------------------------------------------
(* cyto_paths.py *)

\* Directories of the modelled file system; all of them exist. "cwd" is the
\* current working directory.
Dirs == { "cwd", "proj", "other" }

DirArgs ==
    [type : {"NoneType"}, dir : {"cwd"}] \cup
    [type : {"str", "Path"}, dir : Dirs] \cup
    [type : {"int"}, dir : {"cwd"}]

NoCall    == [fn |-> "", arg |-> [type |-> "NoneType", dir |-> "cwd"]]
NoOutcome == [kind |-> "", value |-> ""]
Return(v) == [kind |-> "return", value |-> v]
Raise(e)  == [kind |-> "raise", value |-> e]

\* cytosnake.guards.path_guards.is_valid_path: accepts a str or a Path that
\* names an existing path
IsValidPath(arg) == arg.type \in {"str", "Path"}

\* line 84: `git_path.exists` is not called; the bound method itself is truthy
GitPathExistsAttr == TRUE

\* lines 34-63
IsCytosnakeDirResult(arg) ==
    LET dir_path == IF arg.type = "NoneType"
                    THEN [type |-> "Path", dir |-> "cwd"]    \* lines 51-52
                    ELSE arg
    IN  IF ~ IsValidPath(dir_path)
        THEN Raise("ValueError")                             \* lines 55-57
        ELSE IF dir_path.type = "str"
        THEN Raise("TypeError")         \* line 59: Path(str), the class, not dir_path
        ELSE Return(IF dir_path.dir \in fs_cytosnake THEN "True" ELSE "False")

\* lines 66-87
GetCytosnakePackagePathResult ==
    IF ~ GitPathExistsAttr
    THEN Raise("FileNotFoundError")
    ELSE Return("project_path")

PathsInit ==
    /\ fs_cytosnake \in SUBSET Dirs
    /\ fs_git \in BOOLEAN
    /\ call = NoCall
    /\ outcome = NoOutcome

CallIsCytosnakeDir ==
    \E arg \in DirArgs :
        /\ call' = [fn |-> "is_cytosnake_dir", arg |-> arg]
        /\ outcome' = IsCytosnakeDirResult(arg)
        /\ UNCHANGED <<fs_cytosnake, fs_git>>

CallGetCytosnakePackagePath ==
    /\ call' = [fn |-> "get_cytosnake_package_path", arg |-> NoCall.arg]
    /\ outcome' = GetCytosnakePackagePathResult
    /\ UNCHANGED <<fs_cytosnake, fs_git>>

---------------------------------------------------------------------------
(* Specifications *)

JobIdle ==
    /\ sql_file = <<>>
    /\ pc = "idle"
    /\ error = NoError
    /\ plate = <<>>
    /\ barcode_platemap_df = <<>>
    /\ platemap = ""
    /\ platemap_df = NoTable
    /\ cell_count_df = <<>>
    /\ merged_df = <<>>
    /\ cell_count_file = NoFile
    /\ aggregate_file = NoFile

PoolIdle ==
    /\ dpc = "idle"
    /\ sqlfiles = <<>>
    /\ threads = 1
    /\ inputs = <<>>
    /\ n_cores = 0
    /\ pool = 0
    /\ chunk_state = <<>>
    /\ job_state = <<>>
    /\ invoked = <<>>
    /\ raised = ""

PathsIdle ==
    /\ fs_cytosnake = {}
    /\ fs_git = FALSE
    /\ call = NoCall
    /\ outcome = NoOutcome

Init == JobInit /\ PoolIdle /\ PathsIdle

Next ==
    \/ LoadConfig /\ UNCHANGED <<poolVars, pathVars>>
    \/ LookupPlatemap /\ UNCHANGED <<poolVars, pathVars>>
    \/ LoadPlatemap /\ UNCHANGED <<poolVars, pathVars>>
    \/ NewSingleCells /\ UNCHANGED <<poolVars, pathVars>>
    \/ CountCells /\ UNCHANGED <<poolVars, pathVars>>
    \/ SaveCounts /\ UNCHANGED <<poolVars, pathVars>>
    \/ AggregateProfiles /\ UNCHANGED <<poolVars, pathVars>>

Spec == Init /\ [][Next]_vars

InitPool == PoolInit /\ JobIdle /\ PathsIdle

NextPool ==
    \/ BuildInputs /\ UNCHANGED <<jobVars, pathVars>>
    \/ SetCores /\ UNCHANGED <<jobVars, pathVars>>
    \/ OpenPool /\ UNCHANGED <<jobVars, pathVars>>
    \/ SubmitStarmap /\ UNCHANGED <<jobVars, pathVars>>
    \/ WorkerTakeChunk /\ UNCHANGED <<jobVars, pathVars>>
    \/ (\E c \in 1..Len(chunk_state) : WorkerRunJob(c)) /\ UNCHANGED <<jobVars, pathVars>>
    \/ StarmapReturn /\ UNCHANGED <<jobVars, pathVars>>
    \/ ClosePool /\ UNCHANGED <<jobVars, pathVars>>
    \/ JoinPool /\ UNCHANGED <<jobVars, pathVars>>
    \/ ExitPool /\ UNCHANGED <<jobVars, pathVars>>

SpecPool == InitPool /\ [][NextPool]_vars

InitPaths == PathsInit /\ JobIdle /\ PoolIdle

NextPaths ==
    \/ CallIsCytosnakeDir /\ UNCHANGED <<jobVars, poolVars>>
    \/ CallGetCytosnakePackagePath /\ UNCHANGED <<jobVars, poolVars>>

SpecPaths == InitPaths /\ [][NextPaths]_vars

---------------------------------------------------------------------------
(* Properties of aggregate(), checked under Spec *)

\* The base file name with its final extension removed, as one string
StemOf(path) ==
    LET b == Basename(path)
        k == LastIndexOf(b, ".")
    IN  IF k = 0 THEN b ELSE SubSeq(b, 1, k - 1)

RowsWithStem(df, path) ==
    SelectSeq(df, LAMBDA row : row.Assay_Plate_Barcode = StemOf(path))

\* the barcode table was read and queried (lines 51-54 ran)
LookupRan ==
    /\ plate # <<>>
    /\ ~ (error.at = "lookup_platemap" /\ error.cls = "FileNotFoundError")

InWell(rows, w) ==
    Cardinality({ i \in 1..Len(rows) : rows[i].Image_Metadata_Well = w })

InPlatemap(rows, w) ==
    Cardinality({ i \in 1..Len(rows) : rows[i].well_position = w })

CountsSaved == cell_count_file.state = "complete"

\* C1: a barcode row is selected if and only if its Assay_Plate_Barcode equals
\* the stem of the plate data path: the rows the query selects are exactly the
\* rows whose barcode is the stem.
C1_SelectsExactlyStemRows ==
    LookupRan =>
        QueryBarcode(barcode_platemap_df, plate)
            = RowsWithStem(barcode_platemap_df, sql_file)

\* C3: when the barcode table has no row whose barcode is the plate's stem, the
\* job has failed at the lookup with an IndexError and neither output file has
\* been written.
C3_NoStemRowFailsBeforeOutput ==
    (LookupRan /\ RowsWithStem(barcode_platemap_df, sql_file) = <<>>) =>
        /\ pc = "failed"
        /\ error = [cls |-> "IndexError", at |-> "lookup_platemap"]
        /\ cell_count_file.state = "absent"
        /\ aggregate_file.state = "absent"

\* C4, as claimed (left join): every row of the cell-count result is in the
\* saved cell-count file, also a row whose well no platemap row has.
C4_EveryCountRowSaved ==
    CountsSaved =>
        \A w \in Wells : InWell(cell_count_file.rows, w) >= InWell(cell_count_df, w)

\* C4, amended (inner join): the saved cell-count file holds every row of the
\* cell-count result once per platemap row with the same well_position, and so
\* none of the rows whose well no platemap row has.
C4_InnerJoinSaved ==
    CountsSaved =>
        /\ \A w \in Wells :
              InWell(cell_count_file.rows, w)
                  = InWell(cell_count_df, w) * InPlatemap(platemap_df.rows, w)
        /\ \A i \in 1..Len(cell_count_file.rows) :
              /\ cell_count_file.rows[i].Image_Metadata_Well \in Wells
              /\ DOMAIN cell_count_file.rows[i]
                    = {"Image_Metadata_Well", "cell_count", "treatment"}

C4_Witness ==
    /\ CountsSaved
    /\ \E w \in Wells : InWell(cell_count_df, w) > 0 /\ InPlatemap(platemap_df.rows, w) = 0
    /\ \E w \in Wells : InWell(cell_count_df, w) > 0 /\ InPlatemap(platemap_df.rows, w) > 0

\* every well of the cell-count result has exactly one platemap row
OneToOne ==
    \A i \in 1..Len(cell_count_df) :
        InPlatemap(platemap_df.rows, cell_count_df[i].Image_Metadata_Well) = 1

\* C7: when every well of the cell-count result matches exactly one platemap
\* row, the saved cell-count file has as many rows as the cell-count result.
C7_OneToOneKeepsRowCount ==
    (CountsSaved /\ OneToOne) =>
        Len(cell_count_file.rows) = Len(cell_count_df)

C7_Witness ==
    /\ CountsSaved
    /\ OneToOne
    /\ Len(cell_count_df) = 2
    /\ cell_count_df[1].Image_Metadata_Well # cell_count_df[2].Image_Metadata_Well

\* C10: the cell-count file is completely written before the aggregated-profile
\* step starts, an aggregate-profile output never exists without the cell-count
\* output, and a failure of the aggregated-profile step leaves the cell-count
\* file as it was written.
C10_CountsBeforeProfiles ==
    /\ pc = "aggregate_profiles" => CountsSaved
    /\ aggregate_file.state # "absent" => CountsSaved
    /\ (pc = "failed" /\ error.at = "aggregate_profiles") =>
          cell_count_file = [state |-> "complete", rows |-> merged_df]

C10_Witness ==
    /\ pc = "failed"
    /\ error.at = "aggregate_profiles"
    /\ aggregate_file.state = "partial"
    /\ Len(cell_count_file.rows) = 2

---------------------------------------------------------------------------
(* Properties of the dispatcher, checked under SpecPool *)

\* starmap has returned or re-raised (line 120 is behind the dispatcher)
StarmapLeft == pool > 0 /\ dpc \in {"close", "join", "exit", "exited"}

\* job i follows a failed job in its own chunk
SkippedBy(i) ==
    \E j \in JobsOf(ChunkOf(i)) : j < i /\ job_state[j] = "failed"

\* the call aggregate(sql_files[i], metadata, barcodes, cell_counts[i],
\* aggregate_profile[i], config)
ExpectedCall(i) ==
    [sql_file           |-> sqlfiles[i],
     metadata_dir       |-> MetadataDir,
     barcode_path       |-> BarcodePath,
     cell_count_out     |-> CellCountOutList(Len(sqlfiles))[i],
     aggregate_file_out |-> AggregateProfileList(Len(sqlfiles))[i],
     config             |-> ConfigPath]

\* C2: for N jobs and W requested workers the pool is created with exactly
\* min(N, W) workers, never more workers than jobs.
C2_WorkersAreMinOfJobsAndRequested ==
    /\ dpc \in {"open_pool", "starmap", "starmap_wait", "close", "join", "exit", "exited"}
          => n_cores = Min(Len(sqlfiles), threads)
    /\ pool > 0 => /\ pool = Min(Len(sqlfiles), threads)
                   /\ pool <= Len(inputs)
                   /\ Len(inputs) = Len(sqlfiles)

C2_Witness ==
    /\ pool > 0
    /\ threads > Len(sqlfiles)
    /\ dpc = "starmap_wait"

\* C5, as claimed: when the dispatcher is past starmap, every job submitted has
\* run to its own end, whichever jobs failed.
C5_EverySiblingRuns ==
    StarmapLeft => \A i \in 1..Len(job_state) : job_state[i] \in {"done", "failed"}

\* C5, amended: a failed job keeps only the jobs after it in its own chunk from
\* running; every other job runs to its own end, and the dispatcher gets past
\* starmap (re-raising when a job failed) only once every chunk has finished.
C5_OnlyChunkMatesSkipped ==
    /\ \A i \in 1..Len(job_state) : SkippedBy(i) => job_state[i] = "pending"
    /\ StarmapLeft =>
          /\ \A c \in 1..Len(chunk_state) : chunk_state[c] = "finished"
          /\ \A i \in 1..Len(job_state) : job_state[i] = "pending" => SkippedBy(i)
          /\ (raised = "JobError") <=> AnyFailed

C5_Witness ==
    /\ StarmapLeft
    /\ raised = "JobError"
    /\ \E i, j, k \in 1..Len(job_state) :
          /\ job_state[i] = "failed"
          /\ job_state[j] = "pending"
          /\ job_state[k] = "done" /\ ChunkOf(k) > ChunkOf(i)

\* C6, as claimed: when the dispatcher is past starmap, aggregate has been
\* called exactly once for every plate, with that plate's arguments in order.
C6_EveryPlateOnce ==
    StarmapLeft =>
        /\ Len(invoked) = Len(sqlfiles)
        /\ \A i \in 1..Len(invoked) : invoked[i] = <<ExpectedCall(i)>>

\* C6, amended: aggregate is called at most once per plate and only with that
\* plate's arguments in order; when the dispatcher is past starmap it has been
\* called exactly once for every plate but those that follow a failed job in
\* their chunk, which are never called.
C6_OncePerPlateUnlessSkipped ==
    /\ \A i \in 1..Len(invoked) :
          /\ Len(invoked[i]) <= 1
          /\ \A k \in 1..Len(invoked[i]) : invoked[i][k] = ExpectedCall(i)
    /\ StarmapLeft =>
          /\ Len(invoked) = Len(sqlfiles)
          /\ \A i \in 1..Len(invoked) : (Len(invoked[i]) = 1) <=> ~ SkippedBy(i)

C6_Witness ==
    /\ dpc = "exited"
    /\ raised = ""
    /\ Len(sqlfiles) >= 3
    /\ \A i \in 1..Len(sqlfiles) : invoked[i] = <<ExpectedCall(i)>>

---------------------------------------------------------------------------
(* Properties of cyto_paths, checked under SpecPaths *)

\* C8: get_cytosnake_package_path raises FileNotFoundError whenever `.git` is
\* missing from the package's parent directory, and returns that directory
\* only when `.git` exists.
C8_RaisesIffGitMissing ==
    call.fn = "get_cytosnake_package_path" =>
        IF fs_git THEN outcome = Return("project_path")
                  ELSE outcome = Raise("FileNotFoundError")

\* C9: is_cytosnake_dir, given a str, a Path or None, returns whether the
\* designated directory holds `.cytosnake` and does not raise; any other type
\* raises ValueError.
C9_AcceptsStrPathNone ==
    call.fn = "is_cytosnake_dir" =>
        IF call.arg.type \in {"str", "Path", "NoneType"}
        THEN outcome = Return(IF call.arg.dir \in fs_cytosnake THEN "True" ELSE "False")
        ELSE outcome = Raise("ValueError")

===========================================================================
